---- MODULE Spec2Model ----
(***************************************************************************)
(* mini_rack server helpers.                                               *)
(*                                                                         *)
(*   AlertEngine            server_helpers/simple_alerts.py  main()        *)
(*   RemoteOffsetCollector  server_helpers/collector.py      main()        *)
(*   LineFollower           server_helpers/auth_log_monitor.py and         *)
(*                          server_helpers/simple_alerts.py  follow_file() *)
(*                                                                         *)
(* Timestamps are integers (one unit = the resolution of an event          *)
(* timestamp); a remote byte is the pair <<generation, position>> of the   *)
(* remote file it was written to, so that a byte mirrored twice or never   *)
(* is visible in the mirror.                                               *)
(***************************************************************************)
EXTENDS Integers, Sequences, FiniteSets, TLC

(***************************************************************************)
(* Bounds of the model.                                                    *)
(***************************************************************************)
MaxTime == 3          \* event timestamps are 0..MaxTime
MaxEvents == 4        \* events processed by the AlertEngine

MaxLen == 2           \* a remote file holds at most MaxLen bytes
MaxGen == 1           \* remote files are replaced at most MaxGen times
MaxCycles == 3        \* collection cycles started, over all runs
MaxFaults == 4        \* steps of the environment (writes to the remote
                      \* files, deaths of the collector), one source
FleetFaults == 3      \* the same, with two sources configured

MaxRotations == 3     \* the followed file is replaced at most MaxRotations times
MaxFileOps == 5       \* operations of the writers on the followed file

Thresholds == {2, 3}  \* values of --fail-threshold
Windows == {1, 2}     \* values of --window-min, in time units

IPs == {"10.0.0.5", "10.0.0.6"}
NoIP == "none"        \* evt.get("ip") is None or empty
Absent == -1          \* key not in a dict / Python None
Times == 0..MaxTime
EventKinds == {"ssh_failed", "ssh_accepted", "sudo", "other"}
NoAlert == [alert |-> "none"]
NoEvent == [event |-> "none", ip |-> NoIP, ts |-> Absent]

VARIABLES
    \* ---- AlertEngine (simple_alerts.py main) ----
    fail_threshold,   \* args.fail_threshold
    window,           \* timedelta(minutes=args.window_min)
    alert_sudo,       \* args.alert_sudo
    fails_by_ip,      \* dict ip -> deque of timestamps; <<>> = key absent
    recent_fail_ips,  \* dict ip -> timestamp; Absent = key absent
    emitted,          \* the alert appended to the sink by the last event
    evt,              \* the event processed last
    alive,            \* the engine's process is running
    \* history variables of the AlertEngine
    n_events,         \* number of events processed
    ordered,          \* the timestamps so far were non-decreasing
    all_fails,        \* ip -> (ts -> number of ssh_failed events seen)
    last_fail,        \* ip -> ts of the latest ssh_failed event, never evicted
    trig_ts           \* ip -> ts of the failure that triggered the latest
                      \*       ssh_bruteforce_suspected alert for ip

alertVars == <<fail_threshold, window, alert_sudo, fails_by_ip, recent_fail_ips,
               emitted, evt, alive, n_events, ordered, all_fails, last_fail,
               trig_ts>>

VARIABLES
    \* ---- remote hosts (the writers of the collected files) ----
    remote_exists,    \* source -> the remote file exists
    remote_gen,       \* source -> identity of the remote file (replacements)
    remote_len,       \* source -> its size; byte i of it is <<gen, i>>
    \* ---- RemoteOffsetCollector (collector.py main) ----
    pc,               \* position of the process in main()
    once,             \* args.once
    sources,          \* load_sources(args.config), in config order
    fault_budget,     \* environment steps allowed in this behaviour
    cur,              \* index of src in sources (the for loop)
    offsets,          \* the in-memory dict offsets
    offsets_file,     \* collector_offsets.json
    offsets_tmp,      \* collector_offsets.json.tmp; NoTmp = not there,
                      \* Partial = cut off in the middle of json.dump
    mirror,           \* source -> bytes of <outdir>/<name>.jsonl
    local_tmp,        \* source -> bytes of <outdir>/.<name>.tmp
    stat_res,         \* local: what run() returned for the size query
    size,             \* local: result of remote_stat_size
    old_offset,       \* local: offset the fetch starts at
    bytes_appended,   \* local: result of append_file
    last_rec,         \* the record appended last to collector_status.jsonl
    \* history variables of the collector
    offset0,          \* offsets.get(key, 0) as read at the top of the body
    n_logged,         \* source -> records appended for it in this cycle
    no_change_run,    \* source -> its latest records that are no_change
    failed_range,     \* the source, start offset and remote size of the fetch
                      \*   that failed, while fetch_failed is the source's
                      \*   latest record
    fetched_absent,   \* local: the remote file was not there when the fetch ran
    trunc_seen,       \* source -> generation for which size < offset was seen
    writes,           \* steps taken by the remote writers
    cycle,            \* cycles started
    crashes           \* process deaths so far

remoteVars == <<remote_exists, remote_gen, remote_len, writes>>
statusVars == <<last_rec, n_logged, no_change_run>>
localVars == <<stat_res, size, old_offset, bytes_appended, offset0, fetched_absent>>
cfgVars == <<once, sources, fault_budget>>
collVars == <<pc, cfgVars, cur, offsets, offsets_file, offsets_tmp, mirror,
              local_tmp, localVars, statusVars, trunc_seen, failed_range, cycle,
              crashes>>

VARIABLES
    \* ---- the followed file (auth.log / events.jsonl) and its writers ----
    path_ino,         \* inode of the file at path; NoIno = no file there
    disk,             \* inode -> the chunks of the file, in file order
    n_lines,          \* lines written so far (a line's number is its content)
    n_inodes,         \* inodes handed out so far
    file_ops,         \* writer operations so far
    \* ---- follow_file ----
    fpc,              \* position of the generator in follow_file
    f_handle,         \* f: inode of the open file; NoIno = None
    position,         \* read position of f, in chunks
    current_inode,    \* current_inode; NoIno = None
    yielded,          \* the values yielded so far
    \* ---- history ----
    reopens,          \* rotations detected so far (f closed for a reopen)
    waited,           \* the open found no file at the path, since f was None
    opened_at,        \* the read position f was opened at
    cut_under         \* f was truncated in place while the follower held it
                      \*   open, with a read position beyond the new end

fileVars == <<path_ino, disk, n_lines, n_inodes, file_ops>>
followVars == <<fpc, f_handle, position, current_inode, yielded, reopens, waited,
                opened_at, cut_under>>

VARIABLES
    \* ---- auth_log_monitor.py main ----
    mpc,              \* position of main: before or in the loop over the lines
    followed,         \* the lines follow_file has handed to the loop so far
    written           \* the records in the --out file, in file order

parseVars == <<mpc, followed, written>>

vars == <<alertVars, remoteVars, collVars, fileVars, followVars, parseVars>>

(***************************************************************************)
(* AlertEngine                                                             *)
(***************************************************************************)

\* while dq and dq[0] < cutoff: dq.popleft()
RECURSIVE PruneLeft(_, _)
PruneLeft(dq, cutoff) ==
    IF dq # <<>> /\ Head(dq) < cutoff THEN PruneLeft(Tail(dq), cutoff) ELSE dq

\* the variant of Expire that evicts every entry older than the event itself
ExpireBeforeTs(rf, cutoff) ==
    [ip \in IPs |->
        IF rf[ip] # Absent /\ rf[ip] < cutoff + window THEN Absent ELSE rf[ip]]

ExpireInclusive(rf, cutoff) ==
    [ip \in IPs |-> IF rf[ip] # Absent /\ rf[ip] <= cutoff THEN Absent ELSE rf[ip]]

\* for rip, rts in list(recent_fail_ips.items()): if rts < cutoff: del ...
Expire(rf, cutoff) ==
    [ip \in IPs |-> IF rf[ip] # Absent /\ rf[ip] < cutoff THEN Absent ELSE rf[ip]]

ThresholdReached(dq, threshold) == Len(dq) >= threshold

\* len(dq) == args.fail_threshold
ThresholdHit(dq, threshold) == Len(dq) = threshold

\* last_fail and (ts - last_fail) <= window
WithinWindow(lf, ts, w) == lf # Absent /\ (ts - lf) <= w

BruteAlert(ip, dq) ==
    [alert |-> "ssh_bruteforce_suspected", ip |-> ip, count |-> Len(dq)]

SuccessAlert(ip, lf) ==
    [alert |-> "ssh_success_after_failures", ip |-> ip, last_fail_ts |-> lf]

SudoAlert == [alert |-> "sudo_used"]

\* history bookkeeping common to every processed event
Seen(kind, ip, ts) ==
    /\ alive
    /\ n_events < MaxEvents
    /\ n_events' = n_events + 1
    /\ evt' = [event |-> kind, ip |-> ip, ts |-> ts]
    /\ ordered' = (ordered /\ (evt.ts = Absent \/ evt.ts <= ts))
    /\ UNCHANGED <<fail_threshold, window, alert_sudo, alive, remoteVars, collVars,
                   fileVars, followVars, parseVars>>

\* ev == "ssh_failed" and ip
SshFailed(ip, ts) ==
    LET cutoff == ts - window
        dq == PruneLeft(Append(fails_by_ip[ip], ts), cutoff)
        hit == ThresholdHit(dq, fail_threshold)
    IN  /\ Seen("ssh_failed", ip, ts)
        /\ fails_by_ip' = [fails_by_ip EXCEPT ![ip] = dq]
        /\ recent_fail_ips' = Expire([recent_fail_ips EXCEPT ![ip] = ts], cutoff)
        /\ emitted' = IF hit THEN BruteAlert(ip, dq) ELSE NoAlert
        /\ all_fails' = [all_fails EXCEPT ![ip][ts] = @ + 1]
        /\ last_fail' = [last_fail EXCEPT ![ip] = ts]
        /\ trig_ts' = IF hit THEN [trig_ts EXCEPT ![ip] = ts] ELSE trig_ts

\* ev == "ssh_accepted" and ip
SshAccepted(ip, ts) ==
    LET cutoff == ts - window
        lf == recent_fail_ips[ip]
    IN  /\ Seen("ssh_accepted", ip, ts)
        /\ emitted' = IF WithinWindow(lf, ts, window)
                        THEN SuccessAlert(ip, lf) ELSE NoAlert
        /\ recent_fail_ips' = Expire(recent_fail_ips, cutoff)
        /\ UNCHANGED <<fails_by_ip, all_fails, last_fail, trig_ts>>

\* ev == "sudo" (the alert only with --alert-sudo)
Sudo(ts) ==
    /\ Seen("sudo", NoIP, ts)
    /\ emitted' = IF alert_sudo THEN SudoAlert ELSE NoAlert
    /\ recent_fail_ips' = Expire(recent_fail_ips, ts - window)
    /\ UNCHANGED <<fails_by_ip, all_fails, last_fail, trig_ts>>

\* any other event kind, or ssh_failed / ssh_accepted without an ip: no
\* branch is taken, the expiry loop at the end of the body still runs
Ignored(kind, ts) ==
    /\ kind \in {"ssh_failed", "ssh_accepted", "other"}
    /\ Seen(kind, NoIP, ts)
    /\ emitted' = NoAlert
    /\ recent_fail_ips' = Expire(recent_fail_ips, ts - window)
    /\ UNCHANGED <<fails_by_ip, all_fails, last_fail, trig_ts>>

\* lines 102-108: the line is empty after strip(), or json.loads raises on
\* it: continue
SkippedLine(kind) ==
    /\ kind \in {"blank", "not_json"}
    /\ alive
    /\ n_events < MaxEvents
    /\ n_events' = n_events + 1
    /\ evt' = [event |-> kind, ip |-> NoIP, ts |-> evt.ts]
    /\ emitted' = NoAlert
    /\ UNCHANGED <<fail_threshold, window, alert_sudo, alive, fails_by_ip,
                   recent_fail_ips, ordered, all_fails, last_fail, trig_ts,
                   remoteVars, collVars, fileVars, followVars, parseVars>>

\* lines 105-110: json.loads returns a number, a list, a string (or null, or
\* a boolean); evt.get, outside the try, raises AttributeError, which
\* nothing catches
NonObjectLine(kind) ==
    /\ kind \in {"number", "list", "string"}
    /\ alive
    /\ n_events < MaxEvents
    /\ n_events' = n_events + 1
    /\ evt' = [event |-> kind, ip |-> NoIP, ts |-> evt.ts]
    /\ emitted' = NoAlert
    /\ alive' = FALSE
    /\ UNCHANGED <<fail_threshold, window, alert_sudo, fails_by_ip,
                   recent_fail_ips, ordered, all_fails, last_fail, trig_ts,
                   remoteVars, collVars, fileVars, followVars, parseVars>>

\* the "ts" member of an event object: a timestamp in ISO format, or BadTs
\* for a missing member and for anything datetime.fromisoformat rejects
BadTs == Absent - 1
RawTs == Times \cup {BadTs}

\* parse_ts, lines 72-77
parse_ts(raw) == IF raw = BadTs THEN Absent ELSE raw

\* now_dt() is read only when parse_ts returned None
Clock(raw) == IF parse_ts(raw) = Absent THEN Times ELSE {0}

\* lines 110-112: ts = parse_ts(evt.get("ts", "")), or now_dt() for None
EventTs(raw, now) == IF parse_ts(raw) = Absent THEN now ELSE parse_ts(raw)

\* the timestamps an event object can be processed with, over every "ts"
\* member and every reading of the clock
EventTimes ==
    UNION {{EventTs(raw, now) : now \in Clock(raw)} : raw \in RawTs}

AlertInit ==
    /\ fail_threshold \in Thresholds
    /\ window \in Windows
    /\ alert_sudo \in BOOLEAN
    /\ fails_by_ip = [ip \in IPs |-> <<>>]
    /\ recent_fail_ips = [ip \in IPs |-> Absent]
    /\ emitted = NoAlert
    /\ evt = NoEvent
    /\ alive = TRUE
    /\ n_events = 0
    /\ ordered = TRUE
    /\ all_fails = [ip \in IPs |-> [t \in Times |-> 0]]
    /\ last_fail = [ip \in IPs |-> Absent]
    /\ trig_ts = [ip \in IPs |-> Absent]

AlertNext ==
    \/ \E ip \in IPs, ts \in EventTimes : SshFailed(ip, ts)
    \/ \E ip \in IPs, ts \in EventTimes : SshAccepted(ip, ts)
    \/ \E ts \in EventTimes : Sudo(ts)
    \/ \E kind \in EventKinds, ts \in EventTimes : Ignored(kind, ts)
    \/ \E kind \in {"blank", "not_json"} : SkippedLine(kind)
    \/ \E kind \in {"number", "list", "string"} : NonObjectLine(kind)

(***************************************************************************)
(* RemoteOffsetCollector                                                   *)
(***************************************************************************)
Sources == {"smart_house_pi3", "garage_pi"}    \* names a config may hold
Configured == {sources[i] : i \in 1..Len(sources)}
Src == sources[cur]                            \* src of the for loop
NoFile == "nofile"
NoSize == -1                                       \* remote_stat_size -> None

\* bytes [from, to) of generation g of a remote file
Bytes(g, from, to) == [i \in 1..(to - from) |-> <<g, from + i - 1>>]

\* tail -c +start path 2>/dev/null || true   (start is 1-based; a missing
\* file gives empty output and exit status 0)
TailC(s, start) ==
    IF remote_exists[s] THEN Bytes(remote_gen[s], start - 1, remote_len[s])
    ELSE <<>>

\* sftp_read_range: start = offset + 1
ReadRange(s, offset) == TailC(s, offset + 1)

\* log_status: one record appended to collector_status.jsonl
\* what run() returns for the size query (lines 107-108): the exit status
\* and the stripped stdout, which is a string of digits (modelled by the
\* number), empty (NoOut), or other text (Garbled: the login shell of
\* "bash -lc" or stat printed something else)
NoOut == NoSize
Garbled == NoSize - 1
Completed(rc, out) == [rc |-> rc, out |-> out]
NoRes == Completed(NoSize, NoOut)
Failure == 1                  \* an exit status that is not 0

\* ssh fails, or stat fails on a missing file, with nothing on stdout;
\* otherwise stat prints the size
StatResults(s) ==
    {Completed(Failure, NoOut)} \cup
    (IF remote_exists[s]
        THEN {Completed(0, remote_len[s]), Completed(0, Garbled)}
        ELSE {})

\* out.isdigit()
IsDigit(out) == out >= 0

\* the variant of remote_stat_size that reads any output it cannot parse
\* as size 0
remote_stat_size_or_zero(p) ==
    IF p.rc # 0 THEN NoSize
    ELSE IF ~IsDigit(p.out) THEN 0
    ELSE p.out

\* remote_stat_size, lines 109-114
remote_stat_size(p) ==
    IF p.rc # 0 THEN NoSize
    ELSE IF ~IsDigit(p.out) THEN NoSize
    ELSE p.out

NoRange == [source |-> NoFile, start |-> 0, size |-> NoSize]

\* the source's size query is made again
Queried ==
    failed_range' = IF failed_range.source = Src THEN NoRange ELSE failed_range

LogStatus(status) ==
    /\ last_rec' = [source |-> Src, status |-> status]
    /\ n_logged' = [n_logged EXCEPT ![Src] = @ + 1]
    /\ no_change_run' = [no_change_run EXCEPT
                            ![Src] = IF status = "no_change" THEN @ + 1 ELSE 0]

\* the locals of the loop body are dead once the body is left
ResetLocals ==
    /\ stat_res' = NoRes
    /\ size' = NoSize
    /\ old_offset' = 0
    /\ bytes_appended' = 0
    /\ offset0' = 0
    /\ fetched_absent' = FALSE

\* contents of an offsets file that are no map of offsets: the file is not
\* there, or its JSON text is cut off
NoTmp == [s \in Sources |-> NoSize]
Partial == [s \in Sources |-> NoSize - 1]

\* the variant of LoadOffsets that starts every run from offset 0
LoadOffsetsFresh(file) == [s \in Sources |-> 0]

\* lines 190-195: offsets = load_json(offsets_path); a file that does not
\* parse gives {} (and offsets.get(key, 0) reads an absent key as 0)
LoadOffsets(file) == IF file = Partial THEN [s \in Sources |-> 0] ELSE file

\* lines 187-201: offsets are loaded from collector_offsets.json
Startup ==
    /\ pc = "start"
    /\ cycle < MaxCycles
    /\ cycle' = cycle + 1
    /\ n_logged' = [s \in Sources |-> 0]
    /\ offsets' = LoadOffsets(offsets_file)
    /\ cur' = 1
    /\ pc' = "stat"
    /\ UNCHANGED <<cfgVars, offsets_file, offsets_tmp, mirror, local_tmp,
                   localVars, last_rec, no_change_run, trunc_seen, failed_range,
                   crashes, remoteVars, alertVars, fileVars, followVars, parseVars>>

\* lines 209-222: remote_stat_size returned None (ssh failed, file missing,
\* output not a number)
StatFailed ==
    /\ pc = "stat"
    /\ \E p \in StatResults(Src) :
          remote_stat_size(p) = NoSize /\ stat_res' = p
    /\ offset0' = offsets[Src]
    /\ old_offset' = offsets[Src]
    /\ size' = NoSize
    /\ LogStatus("unreachable_or_missing")
    /\ Queried
    /\ pc' = "next"
    /\ UNCHANGED <<cfgVars, cur, offsets, offsets_file, offsets_tmp, mirror,
                   local_tmp, bytes_appended, fetched_absent, trunc_seen, cycle,
                   crashes, remoteVars, alertVars, fileVars, followVars, parseVars>>

\* the variant of StatSize without the "nothing new" exit of lines 229-238
StatSizeAlwaysFetch ==
    /\ pc = "stat"
    /\ \E p \in StatResults(Src) :
          remote_stat_size(p) # NoSize /\ stat_res' = p
    /\ LET O == offsets[Src]
           S == remote_stat_size(stat_res')
       IN  /\ offset0' = O
           /\ size' = S
           /\ old_offset' = IF S < O THEN 0 ELSE O
           /\ trunc_seen' = IF S < O THEN [trunc_seen EXCEPT ![Src] = remote_gen[Src]]
                            ELSE trunc_seen
           /\ pc' = "fetch" /\ UNCHANGED statusVars
    /\ Queried
    /\ UNCHANGED <<cfgVars, cur, offsets, offsets_file, offsets_tmp, mirror,
                   local_tmp, bytes_appended, fetched_absent, cycle, crashes,
                   remoteVars, alertVars, fileVars, followVars, parseVars>>

\* lines 209-238: remote_stat_size returned the size of the remote file
StatSize ==
    /\ pc = "stat"
    /\ \E p \in StatResults(Src) :
          remote_stat_size(p) # NoSize /\ stat_res' = p
    /\ LET O == offsets[Src]
           S == remote_stat_size(stat_res')
           start == IF S < O THEN 0 ELSE O
       IN  /\ offset0' = O
           /\ size' = S
           /\ old_offset' = start
           /\ trunc_seen' = IF S < O THEN [trunc_seen EXCEPT ![Src] = remote_gen[Src]]
                            ELSE trunc_seen
           /\ IF S = start
                 THEN LogStatus("no_change") /\ pc' = "next"
                 ELSE pc' = "fetch" /\ UNCHANGED statusVars
    /\ Queried
    /\ UNCHANGED <<cfgVars, cur, offsets, offsets_file, offsets_tmp, mirror,
                   local_tmp, bytes_appended, fetched_absent, cycle, crashes,
                   remoteVars, alertVars, fileVars, followVars, parseVars>>

\* the variant of FetchFailed that commits the offset as after a fetch
FetchFailedAdvance ==
    /\ pc = "fetch"
    /\ LogStatus("fetch_failed")
    /\ failed_range' = [source |-> Src, start |-> old_offset, size |-> size]
    /\ offsets' = [offsets EXCEPT ![Src] = size]
    /\ offsets_file' = offsets'
    /\ pc' = "next"
    /\ UNCHANGED <<cfgVars, cur, offsets_tmp, mirror, local_tmp, localVars,
                   trunc_seen, cycle, crashes, remoteVars, alertVars, fileVars,
                   followVars, parseVars>>

\* lines 241-253: sftp_read_range returned False (ssh exit status not 0)
FetchFailed ==
    /\ pc = "fetch"
    /\ LogStatus("fetch_failed")
    /\ failed_range' = [source |-> Src, start |-> old_offset, size |-> size]
    /\ pc' = "next"
    /\ UNCHANGED <<cfgVars, cur, offsets, offsets_file, offsets_tmp, mirror,
                   local_tmp, localVars, trunc_seen, cycle, crashes, remoteVars,
                   alertVars, fileVars, followVars, parseVars>>

\* the variant of FetchOk that commits the offset before the mirror append
FetchOkPersistFirst ==
    /\ pc = "fetch"
    /\ local_tmp' = [local_tmp EXCEPT ![Src] = ReadRange(Src, old_offset)]
    /\ offsets' = [offsets EXCEPT ![Src] = size]
    /\ offsets_file' = offsets'
    /\ fetched_absent' = ~remote_exists[Src]
    /\ pc' = "append"
    /\ UNCHANGED <<cfgVars, cur, offsets_tmp, mirror, stat_res, size, old_offset,
                   bytes_appended, offset0, statusVars, trunc_seen, failed_range,
                   cycle, crashes, remoteVars, alertVars, fileVars, followVars, parseVars>>

\* line 241, sftp_read_range lines 133-140: the output of tail is written
\* to local_tmp
FetchOk ==
    /\ pc = "fetch"
    /\ local_tmp' = [local_tmp EXCEPT ![Src] = ReadRange(Src, old_offset)]
    /\ fetched_absent' = ~remote_exists[Src]
    /\ pc' = "append"
    /\ UNCHANGED <<cfgVars, cur, offsets, offsets_file, offsets_tmp, mirror,
                   stat_res, size, old_offset, bytes_appended, offset0, statusVars,
                   trunc_seen, failed_range, cycle, crashes, remoteVars, alertVars,
                   fileVars, followVars, parseVars>>

\* lines 255-259: append_file(local_out, local_tmp); os.remove(local_tmp)
AppendFile ==
    /\ pc = "append"
    /\ mirror' = [mirror EXCEPT ![Src] = @ \o local_tmp[Src]]
    /\ bytes_appended' = Len(local_tmp[Src])
    /\ local_tmp' = [local_tmp EXCEPT ![Src] = <<>>]
    /\ pc' = "save"
    /\ UNCHANGED <<cfgVars, cur, offsets, offsets_file, offsets_tmp, stat_res,
                   size, old_offset, offset0, fetched_absent, statusVars,
                   trunc_seen, failed_range, cycle, crashes, remoteVars, alertVars,
                   fileVars, followVars, parseVars>>

\* the variant of SaveTmp that advances the offset by the bytes appended
SaveTmpByAppended ==
    /\ pc = "save"
    /\ offsets' = [offsets EXCEPT ![Src] = old_offset + bytes_appended]
    /\ offsets_tmp' = offsets'
    /\ pc' = "replace"
    /\ UNCHANGED <<cfgVars, cur, offsets_file, mirror, local_tmp, localVars,
                   statusVars, trunc_seen, failed_range, cycle, crashes,
                   remoteVars, alertVars, fileVars, followVars, parseVars>>

\* line 262 and save_json lines 70-72: offsets[key] = size, and the whole
\* map is written to collector_offsets.json.tmp
SaveTmp ==
    /\ pc = "save"
    /\ offsets' = [offsets EXCEPT ![Src] = size]
    /\ offsets_tmp' = offsets'
    /\ pc' = "replace"
    /\ UNCHANGED <<cfgVars, cur, offsets_file, mirror, local_tmp, localVars,
                   statusVars, trunc_seen, failed_range, cycle, crashes,
                   remoteVars, alertVars, fileVars, followVars, parseVars>>

\* save_json line 73: os.replace(tmp, path)
SaveReplace ==
    /\ pc = "replace"
    /\ offsets_file' = offsets_tmp
    /\ offsets_tmp' = NoTmp
    /\ pc' = "log_ok"
    /\ UNCHANGED <<cfgVars, cur, offsets, mirror, local_tmp, localVars, statusVars,
                   trunc_seen, failed_range, cycle, crashes, remoteVars, alertVars,
                   fileVars, followVars, parseVars>>

\* lines 265-275
LogOk ==
    /\ pc = "log_ok"
    /\ LogStatus("ok")
    /\ pc' = "next"
    /\ UNCHANGED <<cfgVars, cur, offsets, offsets_file, offsets_tmp, mirror,
                   local_tmp, localVars, trunc_seen, failed_range, cycle, crashes,
                   remoteVars, alertVars, fileVars, followVars, parseVars>>

\* the for loop goes to the next source
NextSource ==
    /\ pc = "next"
    /\ cur < Len(sources)
    /\ cur' = cur + 1
    /\ pc' = "stat"
    /\ ResetLocals
    /\ UNCHANGED <<cfgVars, offsets, offsets_file, offsets_tmp, mirror, local_tmp,
                   statusVars, trunc_seen, failed_range, cycle, crashes,
                   remoteVars, alertVars, fileVars, followVars, parseVars>>

\* lines 277-279: after the last source, --once ends the loop
Finish ==
    /\ pc = "next"
    /\ cur = Len(sources)
    /\ once
    /\ pc' = "done"
    /\ ResetLocals
    /\ UNCHANGED <<cfgVars, cur, offsets, offsets_file, offsets_tmp, mirror,
                   local_tmp, statusVars, trunc_seen, failed_range, cycle, crashes,
                   remoteVars, alertVars, fileVars, followVars, parseVars>>

\* lines 277-279 and 203-204: time.sleep(interval), then the next cycle
NextCycle ==
    /\ pc = "next"
    /\ cur = Len(sources)
    /\ ~once
    /\ cycle < MaxCycles
    /\ cycle' = cycle + 1
    /\ n_logged' = [s \in Sources |-> 0]
    /\ cur' = 1
    /\ pc' = "stat"
    /\ ResetLocals
    /\ UNCHANGED <<cfgVars, offsets, offsets_file, offsets_tmp, mirror, local_tmp,
                   last_rec, no_change_run, trunc_seen, failed_range, crashes,
                   remoteVars, alertVars, fileVars, followVars, parseVars>>

Running == pc \notin {"dead", "raised", "done"}

\* the process dies (kill, power loss, or an exception main() does not
\* catch); what is in memory is lost, the files stay
Exit(how) ==
    /\ writes + crashes < fault_budget
    /\ crashes' = crashes + 1
    /\ pc' = how
    /\ cur' = 1
    /\ offsets' = [s \in Sources |-> 0]
    /\ ResetLocals

\* the process is killed from outside
Die == Exit("dead")

Crash ==
    /\ Running
    /\ Die
    /\ UNCHANGED <<cfgVars, offsets_file, offsets_tmp, mirror, local_tmp,
                   statusVars, trunc_seen, failed_range, cycle, remoteVars,
                   alertVars, fileVars, followVars, parseVars>>

\* the process dies inside append_file, after k bytes of local_tmp reached
\* the mirror
CrashInAppend ==
    /\ pc = "append"
    /\ \E k \in 1..Len(local_tmp[Src]) :
          mirror' = [mirror EXCEPT ![Src] = @ \o SubSeq(local_tmp[Src], 1, k)]
    /\ Die
    /\ UNCHANGED <<cfgVars, offsets_file, offsets_tmp, local_tmp, statusVars,
                   trunc_seen, failed_range, cycle, remoteVars, alertVars,
                   fileVars, followVars, parseVars>>

\* the variant of CrashInSave for a save_json that writes the offsets file
\* in place
CrashInSaveInPlace ==
    /\ pc = "save"
    /\ offsets_file' = Partial
    /\ Die
    /\ UNCHANGED <<cfgVars, offsets_tmp, mirror, local_tmp, statusVars, trunc_seen,
                   failed_range, cycle, remoteVars, alertVars, fileVars,
                   followVars, parseVars>>

\* save_json lines 70-72: the process dies inside json.dump, after open(tmp,
\* "w") emptied the temporary file and before all of the map is written
CrashInSave ==
    /\ pc = "save"
    /\ offsets_tmp' = Partial
    /\ Die
    /\ UNCHANGED <<cfgVars, offsets_file, mirror, local_tmp, statusVars,
                   trunc_seen, failed_range, cycle, remoteVars, alertVars,
                   fileVars, followVars, parseVars>>

\* run() lines 56-57: subprocess.run raises TimeoutExpired when the remote
\* command exceeds its timeout; nothing in remote_stat_size, sftp_read_range
\* or main() catches it, and the process ends with the traceback
RemoteTimeout ==
    /\ pc \in {"stat", "fetch"}
    /\ Exit("raised")
    /\ UNCHANGED <<cfgVars, offsets_file, offsets_tmp, mirror, local_tmp,
                   statusVars, trunc_seen, failed_range, cycle, remoteVars,
                   alertVars, fileVars, followVars, parseVars>>

\* the collector is started again
Restart ==
    /\ pc \in {"dead", "raised"}
    /\ pc' = "start"
    /\ UNCHANGED <<cfgVars, cur, offsets, offsets_file, offsets_tmp, mirror,
                   local_tmp, localVars, statusVars, trunc_seen, failed_range,
                   cycle, crashes, remoteVars, alertVars, fileVars, followVars, parseVars>>

\* ---- the remote hosts ----
Write ==
    /\ writes + crashes < fault_budget
    /\ writes' = writes + 1

\* one write of n bytes at the end of the remote file
RemoteAppend(s, n) ==
    /\ Write
    /\ remote_exists[s]
    /\ remote_len[s] + n <= MaxLen
    /\ remote_len' = [remote_len EXCEPT ![s] = @ + n]
    /\ UNCHANGED <<remote_exists, remote_gen, collVars, alertVars, fileVars,
                   followVars, parseVars>>

\* truncation in place or replacement by a new empty file
RemoteTruncate(s) ==
    /\ Write
    /\ remote_exists[s]
    /\ remote_len[s] > 0
    /\ remote_gen[s] < MaxGen
    /\ remote_gen' = [remote_gen EXCEPT ![s] = @ + 1]
    /\ remote_len' = [remote_len EXCEPT ![s] = 0]
    /\ UNCHANGED <<remote_exists, collVars, alertVars, fileVars, followVars, parseVars>>

RemoteRemove(s) ==
    /\ Write
    /\ remote_exists[s]
    /\ remote_gen[s] < MaxGen
    /\ remote_exists' = [remote_exists EXCEPT ![s] = FALSE]
    /\ UNCHANGED <<remote_gen, remote_len, collVars, alertVars, fileVars,
                   followVars, parseVars>>

RemoteCreate(s) ==
    /\ Write
    /\ ~remote_exists[s]
    /\ remote_exists' = [remote_exists EXCEPT ![s] = TRUE]
    /\ remote_gen' = [remote_gen EXCEPT ![s] = @ + 1]
    /\ remote_len' = [remote_len EXCEPT ![s] = 0]
    /\ UNCHANGED <<collVars, alertVars, fileVars, followVars, parseVars>>

OneSource == <<"smart_house_pi3">>
TwoSources == <<"smart_house_pi3", "garage_pi">>

\* the config holds one source or two; the more sources, the fewer
\* environment steps are explored
CollectorInit ==
    /\ sources \in {OneSource, TwoSources}
    /\ fault_budget = IF sources = OneSource THEN MaxFaults ELSE FleetFaults
    /\ remote_exists = [s \in Sources |-> TRUE]
    /\ remote_gen = [s \in Sources |-> 0]
    /\ remote_len = [s \in Sources |-> 0]
    /\ pc = "start"
    /\ once \in BOOLEAN
    /\ cur = 1
    /\ offsets = [s \in Sources |-> 0]
    /\ offsets_file = [s \in Sources |-> 0]
    /\ offsets_tmp = NoTmp
    /\ mirror = [s \in Sources |-> <<>>]
    /\ local_tmp = [s \in Sources |-> <<>>]
    /\ stat_res = NoRes
    /\ size = NoSize
    /\ old_offset = 0
    /\ bytes_appended = 0
    /\ offset0 = 0
    /\ fetched_absent = FALSE
    /\ last_rec = [source |-> NoFile, status |-> "none"]
    /\ n_logged = [s \in Sources |-> 0]
    /\ no_change_run = [s \in Sources |-> 0]
    /\ failed_range = NoRange
    /\ writes = 0
    /\ trunc_seen = [s \in Sources |-> Absent]
    /\ cycle = 0
    /\ crashes = 0

CollectorNext ==
    \/ Startup
    \/ StatFailed
    \/ StatSize
    \/ FetchFailed
    \/ FetchOk
    \/ AppendFile
    \/ SaveTmp
    \/ SaveReplace
    \/ LogOk
    \/ NextSource
    \/ Finish
    \/ NextCycle
    \/ Crash
    \/ CrashInAppend
    \/ CrashInSave
    \/ RemoteTimeout
    \/ Restart
    \/ \E s \in Configured, n \in 1..MaxLen : RemoteAppend(s, n)
    \/ \E s \in Configured : RemoteTruncate(s)
    \/ \E s \in Configured : RemoteRemove(s)
    \/ \E s \in Configured : RemoteCreate(s)

(***************************************************************************)
(* LineFollower: follow_file, the same generator in auth_log_monitor.py    *)
(* (lines 41-77, yields line.rstrip("\n")) and in simple_alerts.py (lines  *)
(* 37-69, yields line.strip()).                                            *)
(*                                                                         *)
(* A file is a sequence of chunks written by one write call each: a whole  *)
(* line with its newline ("line"), the unterminated start of a line        *)
(* ("head"), or the rest of that line with its newline ("rest").  A read   *)
(* position counts chunks.  Lines are numbered in the order written; the   *)
(* followed file starts with line 0 in it.                                 *)
(***************************************************************************)
NoIno == 0
Inodes == 1..(MaxRotations + 1)
Chunk(n, part) == [line |-> n, part |-> part]
NoLine == Chunk(0, "empty")                    \* readline() returned ""

\* the file ends in an unterminated line
Pending(ino) == Len(disk[ino]) > 0 /\ disk[ino][Len(disk[ino])].part = "head"

\* the inode's file after the path stopped naming it: it stays readable
\* through the follower's open handle, otherwise it is out of reach
Unlinked(ino) ==
    IF f_handle = ino THEN disk ELSE [disk EXCEPT ![ino] = <<>>]

FileOp == file_ops < MaxFileOps /\ file_ops' = file_ops + 1

\* ---- the writers of the followed file ----
\* jsonl_append (auth_log_monitor.py lines 36-38): a whole line is appended
WriteLine ==
    /\ path_ino # NoIno /\ ~Pending(path_ino)
    /\ FileOp
    /\ n_lines' = n_lines + 1
    /\ disk' = [disk EXCEPT ![path_ino] = Append(@, Chunk(n_lines + 1, "line"))]
    /\ UNCHANGED <<path_ino, n_inodes, followVars, alertVars, remoteVars,
                   collVars, parseVars>>

\* the start of a line reaches the file before its end
WriteHead ==
    /\ path_ino # NoIno /\ ~Pending(path_ino)
    /\ FileOp
    /\ n_lines' = n_lines + 1
    /\ disk' = [disk EXCEPT ![path_ino] = Append(@, Chunk(n_lines + 1, "head"))]
    /\ UNCHANGED <<path_ino, n_inodes, followVars, alertVars, remoteVars,
                   collVars, parseVars>>

\* the line is completed by its end and the newline
WriteRest ==
    /\ path_ino # NoIno /\ Pending(path_ino)
    /\ FileOp
    /\ disk' = [disk EXCEPT ![path_ino] =
                   Append(@, Chunk(@[Len(@)].line, "rest"))]
    /\ UNCHANGED <<path_ino, n_lines, n_inodes, followVars, alertVars, remoteVars,
                   collVars, parseVars>>

\* the file is replaced by a new, empty file of another inode (log rotation)
Rotate ==
    /\ path_ino # NoIno /\ ~Pending(path_ino)
    /\ n_inodes < MaxRotations + 1
    /\ FileOp
    /\ n_inodes' = n_inodes + 1
    /\ path_ino' = n_inodes + 1
    /\ disk' = Unlinked(path_ino)
    /\ UNCHANGED <<n_lines, followVars, alertVars, remoteVars, collVars, parseVars>>

\* the file is removed ...
RemovePath ==
    /\ path_ino # NoIno /\ ~Pending(path_ino)
    /\ FileOp
    /\ path_ino' = NoIno
    /\ disk' = Unlinked(path_ino)
    /\ UNCHANGED <<n_lines, n_inodes, followVars, alertVars, remoteVars, collVars, parseVars>>

\* ... and created again
CreatePath ==
    /\ path_ino = NoIno
    /\ n_inodes < MaxRotations + 1
    /\ FileOp
    /\ n_inodes' = n_inodes + 1
    /\ path_ino' = n_inodes + 1
    /\ UNCHANGED <<disk, n_lines, followVars, alertVars, remoteVars, collVars, parseVars>>

\* the file is emptied in place and keeps its inode (copytruncate)
Truncate ==
    /\ path_ino # NoIno /\ Len(disk[path_ino]) > 0
    /\ FileOp
    /\ disk' = [disk EXCEPT ![path_ino] = <<>>]
    /\ cut_under' = (cut_under \/ (f_handle = path_ino /\ position > 0))
    /\ UNCHANGED <<path_ino, n_lines, n_inodes, fpc, f_handle, position,
                   current_inode, yielded, reopens, waited, opened_at, alertVars, remoteVars,
                   collVars, parseVars>>

\* ---- follow_file ----
\* lines 52-53: current_inode = inode(path); f = None
FollowStart ==
    /\ fpc = "start"
    /\ current_inode' = path_ino
    /\ f_handle' = NoIno
    /\ fpc' = "open"
    /\ UNCHANGED <<position, yielded, reopens, waited, opened_at, cut_under, fileVars, alertVars,
                   remoteVars, collVars, parseVars>>

\* the variant of OpenMissing in which FileNotFoundError leaves the generator
OpenMissingRaises ==
    /\ fpc = "open" /\ path_ino = NoIno
    /\ fpc' = "raised"
    /\ UNCHANGED <<f_handle, position, current_inode, yielded, reopens, waited,
                   opened_at, cut_under, fileVars, alertVars, remoteVars, collVars, parseVars>>

\* lines 56-57 and 60-62: open raises FileNotFoundError; sleep(1); continue
OpenMissing ==
    /\ fpc = "open" /\ path_ino = NoIno
    /\ waited' = TRUE
    /\ UNCHANGED <<fpc, f_handle, position, current_inode, yielded, reopens,
                   opened_at, cut_under, fileVars, alertVars, remoteVars, collVars, parseVars>>

\* lines 57-58: f = open(path); f.seek(0, os.SEEK_END)
OpenFile ==
    /\ fpc = "open" /\ path_ino # NoIno
    /\ f_handle' = path_ino
    /\ position' = Len(disk[path_ino])
    /\ opened_at' = Len(disk[path_ino])
    /\ fpc' = "inode"
    /\ UNCHANGED <<current_inode, yielded, reopens, waited, cut_under, fileVars, alertVars,
                   remoteVars, collVars, parseVars>>

\* line 59: current_inode = inode(path), None when the path is gone
CaptureInode ==
    /\ fpc = "inode"
    /\ current_inode' = path_ino
    /\ fpc' = "read"
    /\ UNCHANGED <<f_handle, position, yielded, reopens, waited, opened_at, cut_under, fileVars,
                   alertVars, remoteVars, collVars, parseVars>>

\* line 65, f.readline(): "" at or beyond the end of the file, else the text
\* up to and including the next newline, or up to the end of the file when
\* no newline follows
ReadLine(file, pos) ==
    IF pos >= Len(file) THEN [line |-> NoLine, pos |-> pos]
    ELSE IF /\ file[pos + 1].part = "head"
            /\ pos + 2 <= Len(file)
            /\ file[pos + 2].part = "rest"
         THEN [line |-> Chunk(file[pos + 1].line, "line"), pos |-> pos + 2]
         ELSE [line |-> file[pos + 1], pos |-> pos + 1]

\* lines 65-67: a non-empty readline() is yielded without its newline
YieldLine ==
    /\ fpc = "read"
    /\ LET r == ReadLine(disk[f_handle], position) IN
          /\ r.line # NoLine
          /\ yielded' = Append(yielded, r.line)
          /\ position' = r.pos
    /\ UNCHANGED <<fpc, f_handle, current_inode, reopens, waited, opened_at, cut_under, fileVars,
                   alertVars, remoteVars, collVars, parseVars>>

\* lines 65 and 68: readline() returned ""
ReadEmpty ==
    /\ fpc = "read"
    /\ ReadLine(disk[f_handle], position).line = NoLine
    /\ fpc' = "check"
    /\ UNCHANGED <<f_handle, position, current_inode, yielded, reopens, waited, opened_at, cut_under,
                   fileVars, alertVars, remoteVars, collVars, parseVars>>

\* line 70: the rotation test on new_inode = inode(path)
Rotated ==
    path_ino # NoIno /\ current_inode # NoIno /\ path_ino # current_inode

\* lines 69-76: the inode changed: f.close(); f = None; sleep(0.2)
CloseRotated ==
    /\ fpc = "check" /\ Rotated
    /\ f_handle' = NoIno
    /\ fpc' = "open"
    /\ reopens' = reopens + 1
    /\ waited' = FALSE
    /\ UNCHANGED opened_at
    /\ cut_under' = FALSE
    /\ disk' = IF f_handle = path_ino THEN disk ELSE [disk EXCEPT ![f_handle] = <<>>]
    /\ UNCHANGED <<position, current_inode, yielded, path_ino, n_lines, n_inodes,
                   file_ops, alertVars, remoteVars, collVars, parseVars>>

\* lines 69-70 and 76: no rotation seen; sleep(0.2)
KeepFile ==
    /\ fpc = "check" /\ ~Rotated
    /\ fpc' = "read"
    /\ UNCHANGED <<f_handle, position, current_inode, yielded, reopens, waited, opened_at, cut_under,
                   fileVars, alertVars, remoteVars, collVars, parseVars>>

FollowerInit ==
    /\ path_ino = 1
    /\ disk = [i \in Inodes |-> IF i = 1 THEN <<Chunk(0, "line")>> ELSE <<>>]
    /\ n_lines = 0
    /\ n_inodes = 1
    /\ file_ops = 0
    /\ fpc = "start"
    /\ f_handle = NoIno
    /\ position = 0
    /\ current_inode = NoIno
    /\ yielded = <<>>
    /\ reopens = 0
    /\ waited = FALSE
    /\ opened_at = 0
    /\ cut_under = FALSE

FollowerNext ==
    \/ WriteLine
    \/ WriteHead
    \/ WriteRest
    \/ Rotate
    \/ RemovePath
    \/ CreatePath
    \/ Truncate
    \/ FollowStart
    \/ OpenMissing
    \/ OpenFile
    \/ CaptureInode
    \/ YieldLine
    \/ ReadEmpty
    \/ CloseRotated
    \/ KeepFile

(***************************************************************************)
(* auth_log_monitor.py: parse_line and the loop of main                    *)
(***************************************************************************)

MaxLines == 3

\* A line is the sequence of its parts: text that is one of the three
\* patterns' matches, with the groups it binds, or other text.
NoMatch == [part |-> "none"]
Text == [part |-> "text"]
FailedText(user, ip) == [part |-> "failed", user |-> user, ip |-> ip]
AcceptedText(user, ip) == [part |-> "accepted", user |-> user, ip |-> ip]
SudoText(user, cmd) == [part |-> "sudo", user |-> user, cmd |-> cmd]

\* lines 31-33: the part of the line an unanchored search for the pattern
\* finds first
RECURSIVE Search(_, _)
Search(pattern, line) ==
    IF line = <<>> THEN NoMatch
    ELSE IF Head(line).part = pattern THEN Head(line)
    ELSE Search(pattern, Tail(line))

RE_FAILED(line) == Search("failed", line)
RE_ACCEPTED(line) == Search("accepted", line)
RE_SUDO(line) == Search("sudo", line)

\* str.strip() of the cmd group
Strip(cmd) == IF cmd = "/bin/ls " THEN "/bin/ls" ELSE cmd

NoFields == [user |-> "none"]

\* parse_line, lines 80-94: <<event_type, fields>>, <<"none", NoFields>> for
\* (None, None)
parse_line(line) ==
    IF RE_FAILED(line) # NoMatch
        THEN <<"ssh_failed", [user |-> RE_FAILED(line).user, ip |-> RE_FAILED(line).ip]>>
    ELSE IF RE_ACCEPTED(line) # NoMatch
        THEN <<"ssh_accepted",
               [user |-> RE_ACCEPTED(line).user, ip |-> RE_ACCEPTED(line).ip]>>
    ELSE IF RE_SUDO(line) # NoMatch
        THEN <<"sudo", [user |-> RE_SUDO(line).user, cmd |-> Strip(RE_SUDO(line).cmd)]>>
    ELSE <<"none", NoFields>>

\* the lines of the followed file: empty, other text, one pattern alone, a
\* line cut before its pattern is complete, and lines holding two patterns
Lines ==
    { <<>>,
      <<Text>>,
      <<FailedText("root", "10.0.0.5")>>,
      <<Text, FailedText("admin", "10.0.0.6")>>,
      <<AcceptedText("root", "10.0.0.5")>>,
      <<SudoText("pi", "/bin/ls ")>>,
      <<AcceptedText("root", "10.0.0.5"), FailedText("root", "10.0.0.6")>>,
      <<Text, SudoText("pi", "/bin/ls"), Text>> }

jsonl_prepend(file, obj) == <<obj>> \o file

\* jsonl_append, lines 36-38
jsonl_append(file, obj) == Append(file, obj)

\* lines 108-113
start_evt == [event |-> "monitor_start"]

\* lines 123-129: the event of a line (ts and host are not modelled)
LineEvent(line) ==
    [event |-> parse_line(line)[1], raw |-> line, fields |-> parse_line(line)[2]]

\* lines 108-116: the start marker is written before the loop
MonitorStart ==
    /\ mpc = "start"
    /\ written' = jsonl_append(written, start_evt)
    /\ mpc' = "loop"
    /\ UNCHANGED <<followed, alertVars, remoteVars, collVars, fileVars, followVars>>

\* lines 118-121: if not event_type: continue
SkipLine(line) ==
    /\ mpc = "loop"
    /\ Len(followed) < MaxLines
    /\ parse_line(line)[1] = "none"
    /\ followed' = Append(followed, line)
    /\ UNCHANGED <<mpc, written, alertVars, remoteVars, collVars, fileVars, followVars>>

\* lines 118-130: the event is appended to the --out file
WriteEvent(line) ==
    /\ mpc = "loop"
    /\ Len(followed) < MaxLines
    /\ parse_line(line)[1] # "none"
    /\ followed' = Append(followed, line)
    /\ written' = jsonl_append(written, LineEvent(line))
    /\ UNCHANGED <<mpc, alertVars, remoteVars, collVars, fileVars, followVars>>

ParserInit ==
    /\ mpc = "start"
    /\ followed = <<>>
    /\ written = <<>>

ParserNext ==
    \/ MonitorStart
    \/ \E line \in Lines : SkipLine(line)
    \/ \E line \in Lines : WriteEvent(line)

\* the engine in one fixed configuration, before any event
AlertIdle ==
    /\ AlertInit
    /\ fail_threshold = 3 /\ window = 2 /\ ~alert_sudo

Init == AlertInit /\ CollectorInit /\ FollowerInit /\ ParserInit

Next == AlertNext \/ CollectorNext \/ FollowerNext \/ ParserNext

Spec == Init /\ [][Next]_vars

\* the AlertEngine alone
AlertOnlyInit ==
    /\ AlertInit /\ CollectorInit /\ once = TRUE /\ sources = OneSource
    /\ FollowerInit /\ ParserInit

AlertSpec == AlertOnlyInit /\ [][AlertNext]_vars

\* the collector alone
CollectorOnlyInit == AlertIdle /\ CollectorInit /\ FollowerInit /\ ParserInit

CollectorSpec == CollectorOnlyInit /\ [][CollectorNext]_vars

\* the follower alone
FollowerOnlyInit ==
    /\ AlertIdle /\ CollectorInit /\ once = TRUE /\ sources = OneSource
    /\ FollowerInit /\ ParserInit

FollowerSpec == FollowerOnlyInit /\ [][FollowerNext]_vars

\* the steps of the generator and of the loop that consumes it; the loop is
\* the only thread of its process and runs as long as the process does
FollowerStep ==
    \/ FollowStart
    \/ OpenFile
    \/ CaptureInode
    \/ YieldLine
    \/ ReadEmpty
    \/ CloseRotated
    \/ KeepFile

FollowerLiveSpec == FollowerSpec /\ WF_vars(FollowerStep)

\* the parsing pipeline alone
ParserSpec == FollowerOnlyInit /\ [][ParserNext]_vars

(***************************************************************************)
(* Properties of the AlertEngine                                           *)
(***************************************************************************)
RECURSIVE SumOver(_, _)
SumOver(f, S) ==
    IF S = {} THEN 0
    ELSE LET x == CHOOSE y \in S : TRUE IN f[x] + SumOver(f, S \ {x})

\* ssh_failed events seen for ip with a timestamp in [ts - window, ts]
FailsInWindow(ip, ts) ==
    SumOver(all_fails[ip], {t \in Times : ts - window <= t /\ t <= ts})

FailedEvt == evt.event = "ssh_failed" /\ evt.ip \in IPs
AcceptedEvt == evt.event = "ssh_accepted" /\ evt.ip \in IPs

\* C1: once ssh_bruteforce_suspected was emitted for an IP, no later
\* ssh_failed event of that IP whose window [ts - window, ts] still contains
\* the failure that triggered the earlier alert emits it again.
C1_EdgeTriggerOnce ==
    [][\A ip \in IPs :
          (/\ trig_ts[ip] # Absent
           /\ evt'.event = "ssh_failed" /\ evt'.ip = ip
           /\ evt'.ts - window <= trig_ts[ip] /\ trig_ts[ip] <= evt'.ts)
          => emitted'.alert # "ssh_bruteforce_suspected"]_vars

\* C2: with non-decreasing timestamps an ssh_failed event emits
\* ssh_bruteforce_suspected iff the number of ssh_failed events of its IP
\* inside [ts - window, ts], itself included, equals fail_threshold, and
\* the alert's count is fail_threshold.
C2_ThresholdRule ==
    (FailedEvt /\ ordered) =>
        /\ (emitted.alert = "ssh_bruteforce_suspected")
              <=> (FailsInWindow(evt.ip, evt.ts) = fail_threshold)
        /\ emitted.alert = "ssh_bruteforce_suspected"
              => (emitted.count = fail_threshold /\ emitted.ip = evt.ip)

\* threshold 3: the alert with count 3 was given, and a 4th failure inside
\* the same window gives none
C2_Witness ==
    /\ FailedEvt /\ ordered /\ fail_threshold = 3
    /\ trig_ts[evt.ip] # Absent
    /\ FailsInWindow(evt.ip, evt.ts) = 4
    /\ emitted = NoAlert

\* C3: with non-decreasing timestamps an ssh_accepted event at exactly
\* last_failure_timestamp + window emits ssh_success_after_failures carrying
\* that timestamp, and one a time unit later emits nothing.
C3_WindowBoundary ==
    (AcceptedEvt /\ ordered /\ last_fail[evt.ip] # Absent) =>
        /\ evt.ts = last_fail[evt.ip] + window
              => emitted = SuccessAlert(evt.ip, last_fail[evt.ip])
        /\ evt.ts = last_fail[evt.ip] + window + 1 => emitted = NoAlert

\* an accepted login on the boundary, after other events were processed at
\* the boundary timestamp
C3_Witness ==
    /\ AcceptedEvt /\ ordered /\ n_events >= 3
    /\ last_fail[evt.ip] # Absent
    /\ evt.ts = last_fail[evt.ip] + window
    /\ emitted.alert = "ssh_success_after_failures"

Newest(dq) == dq[Len(dq)]

\* C4: after each event with timestamp ts no failure record (deque or
\* last-failure entry) is held whose newest entry is older than ts - window,
\* so the keys held are at most the IPs with a failure in the trailing window.
C4_BoundedState ==
    n_events > 0 =>
        LET cutoff == evt.ts - window
            active == {ip \in IPs : FailsInWindow(ip, evt.ts) > 0}
        IN  /\ \A ip \in IPs :
                 /\ fails_by_ip[ip] # <<>> => Newest(fails_by_ip[ip]) >= cutoff
                 /\ recent_fail_ips[ip] # Absent => recent_fail_ips[ip] >= cutoff
            /\ Cardinality({ip \in IPs : fails_by_ip[ip] # <<>>})
                 <= Cardinality(active)
            /\ Cardinality({ip \in IPs : recent_fail_ips[ip] # Absent})
                 <= Cardinality(active)

(***************************************************************************)
(* Properties of the RemoteOffsetCollector                                 *)
(***************************************************************************)
Range(q) == {q[i] : i \in 1..Len(q)}

\* the bytes the last append_file call added to the mirror of src
Appended == SubSeq(mirror[Src], Len(mirror[Src]) - bytes_appended + 1,
                   Len(mirror[Src]))

NoDuplicate(q) == \A i, j \in 1..Len(q) : q[i] = q[j] => i = j

\* C5: in a cycle whose size query returned S > O, the persisted offset
\* after the cycle is S if the fetch succeeded and still O if it failed, and
\* a write of the offsets file changes only this source's entry, to S.
C5_OffsetUpdate ==
    /\ []((pc = "log_ok" /\ size > offset0)
            => (offsets_file[Src] = size /\ offsets[Src] = size))
    /\ []((pc = "next" /\ last_rec.status = "fetch_failed" /\ size > offset0)
            => (offsets_file[Src] = offset0 /\ offsets[Src] = offset0))
    /\ [][\A s \in Sources :
            offsets_file'[s] # offsets_file[s]
               => (pc = "replace" /\ s = Src /\ offsets_file'[s] = size)]_vars

\* a successful cycle in which the bytes appended were not S - O
C5_Witness ==
    /\ pc = "log_ok" /\ size > offset0 /\ offset0 > 0
    /\ offsets_file[Src] = size
    /\ bytes_appended # size - offset0

\* C6: in a successful cycle with S > O exactly the remote bytes [O, S) are
\* appended, whatever the remote writer does between the size query and the
\* fetch; so without a crash the mirror of a file that only grew holds no
\* remote byte twice.
C6_FetchRange ==
    /\ (pc = "log_ok" /\ size > offset0)
          => /\ bytes_appended = size - offset0
             /\ \A k \in 1..Len(Appended) : Appended[k][2] = offset0 + k - 1
    /\ \A s \in Sources :
          (crashes = 0 /\ remote_gen[s] = 0) => NoDuplicate(mirror[s])

\* C7: a successful cycle whose size query returned 0 < S < O fetched from
\* byte 0, appended S bytes to the mirror and stored S as the offset.
C7_TruncationRecovery ==
    (crashes = 0 /\ pc = "log_ok" /\ 0 < size /\ size < offset0)
        => /\ old_offset = 0
           /\ bytes_appended = size
           /\ offsets_file[Src] = size

\* C8: once a cycle has observed S < O for the current remote file, no
\* fetch of that file starts past bytes that are not in the mirror.
C8_ResetNotLost ==
    [][(/\ pc = "fetch" /\ pc' = "append"
        /\ crashes = 0
        /\ remote_exists[Src]
        /\ trunc_seen[Src] = remote_gen[Src])
       => \A i \in 0..(old_offset - 1) :
             <<remote_gen[Src], i>> \in Range(mirror[Src])]_vars

\* C9: a size query that returns S equal to the stored offset ends the
\* source's turn with status no_change: no fetch, nothing appended, the
\* in-memory and the persisted offsets unchanged.
C9_NoChangeIdempotent ==
    [][(/\ pc = "stat" /\ pc' \in {"next", "fetch"}
        /\ size' # NoSize
        /\ size' = offsets[Src])
       => /\ pc' = "next"
          /\ last_rec' = [source |-> Src, status |-> "no_change"]
          /\ mirror' = mirror
          /\ local_tmp' = local_tmp
          /\ offsets' = offsets
          /\ offsets_file' = offsets_file
          /\ offsets_tmp' = offsets_tmp]_vars

\* three consecutive no_change cycles of a source that has data mirrored
C9_Witness ==
    /\ pc = "next"
    /\ no_change_run[Src] >= 2
    /\ size = offset0 /\ size > 0
    /\ Len(mirror[Src]) = size

\* bytes of the current remote file of s that are in its mirror
MirroredBytes(s) ==
    IF remote_exists[s]
      THEN {i \in 0..(remote_len[s] - 1) : <<remote_gen[s], i>> \in Range(mirror[s])}
      ELSE {}

\* C10 as stated: the persisted offset of a source never exceeds the number
\* of bytes of the current remote file that are in its mirror.
C10_OffsetWithinMirrored ==
    \A s \in Sources : offsets_file[s] <= Cardinality(MirroredBytes(s))

\* C10, for a remote file that was only appended to: whatever step the
\* process died at, every byte below the persisted offset is in the mirror.
C10_CrashOrdering ==
    \A s \in Sources :
        (remote_exists[s] /\ remote_gen[s] = 0)
           => /\ offsets_file[s] <= remote_len[s]
              /\ \A i \in 0..(offsets_file[s] - 1) : <<0, i>> \in Range(mirror[s])

\* after a death between the append and the commit of the offset, and a
\* restart: bytes were mirrored twice, none is missing
C10_Witness ==
    /\ crashes = 1 /\ pc = "next"
    /\ remote_gen[Src] = 0 /\ remote_exists[Src]
    /\ offsets_file[Src] = remote_len[Src] /\ remote_len[Src] > 0
    /\ ~NoDuplicate(mirror[Src])

\* C11: save_json writes the whole map to the temporary file and renames it
\* over the offsets file: the offsets file always holds a complete map, it
\* changes only in the rename, from the map persisted before to the complete
\* new map, and a startup after any death loads exactly the map it holds.
C11_AtomicPersist ==
    /\ [](offsets_file \in [Sources -> Nat])
    /\ [][offsets_file' # offsets_file
            => (pc = "replace" /\ offsets_tmp = offsets /\ offsets_file' = offsets)]_vars
    /\ [][(pc = "start" /\ pc' = "stat") => offsets' = offsets_file]_vars

\* restarted after a death inside json.dump: the temporary file is cut
\* off, the offsets file still holds the map persisted before
C11_Witness ==
    /\ crashes >= 1 /\ pc = "stat"
    /\ offsets_tmp = Partial
    /\ offsets = offsets_file
    /\ offsets_file[Src] > 0
    /\ Len(mirror[Src]) > offsets_file[Src]

\* C12: in every cycle exactly one status record is appended for every
\* configured source, with one of the four statuses, whatever the remote
\* calls do: a source has at most one record in a cycle, and when its turn
\* is over, or a remote call's timeout has ended the cycle, the record is
\* there (for every configured source in the latter case).
C12_OneRecordPerSource ==
    /\ last_rec.status \in {"none", "ok", "no_change", "unreachable_or_missing",
                            "fetch_failed"}
    /\ \A s \in Configured : n_logged[s] <= 1
    /\ pc = "next" => \A i \in 1..cur : n_logged[sources[i]] = 1
    /\ pc = "raised" => \A s \in Configured : n_logged[s] = 1

\* C13: a timeout of the size query or of the fetch is a failure of that
\* source for that cycle only: the step in which the remote call times out
\* leaves the offsets (in memory and persisted) and the mirror unchanged and
\* leaves the process in the loop, at the end of that source's turn, from
\* where the remaining sources and the next cycles are processed.
C13_TimeoutIsolated ==
    [][RemoteTimeout =>
          /\ pc' = "next" /\ cur' = cur
          /\ offsets' = offsets
          /\ offsets_file' = offsets_file
          /\ mirror' = mirror]_vars

\* a chunk of a file has been yielded, alone or as part of its whole line
Emitted(c) ==
    \E k \in 1..Len(yielded) :
        yielded[k].line = c.line /\ yielded[k].part \in {c.part, "line"}

\* the chunks of the open file that lie before the read position
Passed ==
    IF position <= Len(disk[f_handle]) THEN 1..position ELSE 1..Len(disk[f_handle])

\* C14: under line appends interleaved with replacements of the file (three
\* of them and more), the follower yields exactly the lines appended to the
\* replacement files, each once and in order: nothing is yielded twice, the
\* lines come out in the order written, and in a file opened after a
\* detected rotation (and not truncated since) every line before the read
\* position has been yielded, that is, the reopened file is read from its
\* start.
C14_RotationSafe ==
    /\ NoDuplicate(yielded)
    /\ \A j, k \in 1..Len(yielded) : j < k => yielded[j].line <= yielded[k].line
    /\ (f_handle # NoIno /\ reopens > 0 /\ ~cut_under)
          => \A i \in Passed : Emitted(disk[f_handle][i])

\* C15: trailing bytes that no newline terminates are held: whatever is
\* yielded is a complete line.
C15_PartialHeld ==
    \A k \in 1..Len(yielded) : yielded[k].part = "line"

\* C16: after the file has been truncated in place (same inode) with the
\* follower's read position beyond the new end of file, every line appended
\* since is yielded: when a poll of the follower finds nothing to read, all
\* the complete lines of the file have been yielded, and none of them twice.
C16_TruncationSafe ==
    [][(fpc = "read" /\ fpc' = "check" /\ cut_under)
          => /\ \A i \in 1..Len(disk[f_handle]) :
                   disk[f_handle][i].part # "head" => Emitted(disk[f_handle][i])
             /\ NoDuplicate(yielded)]_vars

\* C17: a malformed input line is not fatal to the AlertEngine: a line that
\* is blank or no JSON, or JSON that is no object (a number, a list, a
\* string), or an object without a known event, leaves the engine running,
\* raises no alert and leaves the failure counts as they were; a line that
\* is no object also leaves the recent failures as they were, so that the
\* following lines are processed as if it had not been there.
C17_MalformedNotFatal ==
    [][(n_events' = n_events + 1
          /\ evt'.event \in {"blank", "not_json", "number", "list", "string", "other"})
        => /\ alive'
           /\ emitted' = NoAlert
           /\ fails_by_ip' = fails_by_ip
           /\ evt'.event # "other" => recent_fail_ips' = recent_fail_ips]_vars

\* C18: when the size query fails (exit status not 0, or output that is no
\* unsigned integer, which is unknown and not size 0), the source's record
\* is unreachable_or_missing, no fetch is made, the offsets in memory and
\* on disk and the mirror are unchanged, and the loop is at the end of that
\* source's turn.
C18_StatFailure ==
    [][(pc = "stat" /\ pc' \in {"next", "fetch"}
          /\ (stat_res'.rc # 0 \/ ~IsDigit(stat_res'.out)))
        => /\ pc' = "next" /\ cur' = cur
           /\ last_rec' = [source |-> Src, status |-> "unreachable_or_missing"]
           /\ n_logged'[Src] = n_logged[Src] + 1
           /\ offsets' = offsets
           /\ offsets_file' = offsets_file
           /\ mirror' = mirror
           /\ local_tmp' = local_tmp]_vars

\* the size query printed something that is no number, for a source with
\* bytes mirrored and a stored offset
C18_Witness ==
    /\ pc = "next"
    /\ stat_res = Completed(0, Garbled)
    /\ last_rec = [source |-> Src, status |-> "unreachable_or_missing"]
    /\ offsets[Src] > 0 /\ offsets_file[Src] = offsets[Src]
    /\ Len(mirror[Src]) > 0

\* C19: when the range fetch fails (S > O, or S < O), the source's record
\* is fetch_failed, nothing is appended to the mirror (bytes an earlier
\* cycle left in the temporary file included), the offsets in memory and on
\* disk are unchanged, and the next size query that finds the same size S
\* leads to a fetch from the same start offset.
C19_FetchFailure ==
    /\ [][(pc = "fetch" /\ pc' = "next")
            => /\ last_rec' = [source |-> Src, status |-> "fetch_failed"]
               /\ n_logged'[Src] = n_logged[Src] + 1
               /\ cur' = cur
               /\ mirror' = mirror
               /\ local_tmp' = local_tmp
               /\ offsets' = offsets
               /\ offsets_file' = offsets_file]_vars
    /\ [][(pc = "stat" /\ pc' \in {"next", "fetch"}
             /\ failed_range.source = Src /\ size' = failed_range.size)
            => (pc' = "fetch" /\ old_offset' = failed_range.start)]_vars

\* a fetch failed, with bytes left in the temporary file by a run that died
\* in append_file; the mirror got none of them, the offsets are as they were,
\* and the next cycle is about to query the same remote file
C19_Witness ==
    /\ pc = "stat"
    /\ last_rec = [source |-> Src, status |-> "fetch_failed"]
    /\ failed_range.source = Src
    /\ offsets_file[Src] = offsets[Src]
    /\ remote_exists[Src] /\ remote_len[Src] = failed_range.size
    /\ Len(local_tmp[Src]) > 0

\* C20: when the size query found S > O and the remote file is gone when the
\* fetch runs, the fetch succeeds with nothing, nothing is appended to the
\* mirror, and the stored offset is reset to 0 and not advanced to S.
C20_AbsentAtFetch ==
    (pc = "log_ok" /\ fetched_absent /\ size > offset0)
        => /\ bytes_appended = 0
           /\ offsets[Src] = 0
           /\ offsets_file[Src] = 0

\* C21: a rotation is always eventually detected: whenever the follower has
\* opened a file and recorded an identity, and the file at the path is
\* another file than the one its handle refers to, the rotation test of its
\* next poll succeeds (so the handle is closed and the path reopened with no
\* further change of the path and no data in the new file), for every
\* interleaving of the replacement with the open and the identity capture.
C21_RotationDetected ==
    (fpc \in {"read", "check"} /\ path_ino # NoIno /\ f_handle # path_ino)
        => Rotated

\* the follower reads the file at the path and has yielded all that was
\* appended since it opened it (or the file was cut under it)
CaughtUp ==
    /\ f_handle # NoIno /\ f_handle = path_ino
    /\ \/ cut_under
       \/ /\ position = Len(disk[f_handle])
          /\ \A i \in (opened_at + 1)..Len(disk[f_handle]) : Emitted(disk[f_handle][i])

\* C22: while there is no file at the path the follower stays in its open
\* retry, without ending or raising; and when the file then appears and
\* stays (the last inode of the model: it cannot be replaced), the follower
\* eventually opens it and yields what is appended afterwards.
C22_MissingFile ==
    /\ [][(fpc = "open" /\ path_ino = NoIno)
            => (fpc' = "open" /\ f_handle' = NoIno)]_vars
    /\ []((fpc = "open" /\ path_ino = NoIno /\ n_inodes = MaxRotations)
            => (<>[](path_ino # NoIno) => <>[]CaughtUp))

\* the follower waited for the file, opened it when it appeared, and has
\* yielded a line appended after the open
C22_Witness ==
    /\ waited /\ fpc = "read"
    /\ f_handle = path_ino /\ n_inodes = MaxRotations + 1
    /\ position = Len(disk[f_handle]) /\ position > opened_at
    /\ \A i \in (opened_at + 1)..position : Emitted(disk[f_handle][i])

\* C23: an ignored event (a kind other than ssh_failed, ssh_accepted and
\* sudo, or ssh_failed / ssh_accepted without an ip) emits no alert and
\* leaves the failure sequences and the last-failure entries of every IP as
\* they were, whatever its timestamp.
C23_IgnoredNoEffect ==
    [][(/\ n_events' = n_events + 1
        /\ evt'.event \in {"ssh_failed", "ssh_accepted", "other"}
        /\ evt'.ip = NoIP)
          => (/\ emitted' = NoAlert
              /\ fails_by_ip' = fails_by_ip
              /\ recent_fail_ips' = recent_fail_ips)]_vars

\* the events of the parseable lines among lines, in line order
RECURSIVE Parsed(_)
Parsed(lines) ==
    IF lines = <<>> THEN <<>>
    ELSE IF parse_line(Head(lines))[1] = "none" THEN Parsed(Tail(lines))
    ELSE <<LineEvent(Head(lines))>> \o Parsed(Tail(lines))

\* C24: after the start marker, the records written are the events parse_line
\* gives for the parseable lines followed so far, one per line and in line
\* order; a line parse_line rejects adds nothing, and the loop goes on.
C24_ParsingPipeline ==
    /\ [](mpc = "loop" => written = <<start_evt>> \o Parsed(followed))
    /\ [][mpc = "loop" => mpc' = "loop"]_vars

\* a rejected line between two parseable lines, and both their events written
C24_Witness ==
    /\ Len(followed) = 3 /\ Len(written) = 3
    /\ parse_line(followed[1])[1] # "none"
    /\ parse_line(followed[2])[1] = "none"
    /\ parse_line(followed[3])[1] # "none"
    /\ written[2].raw = followed[1] /\ written[3].raw = followed[3]

RECURSIVE OldestFirst(_)
OldestFirst(dq) ==
    Len(dq) < 2 \/ (dq[1] <= dq[2] /\ OldestFirst(Tail(dq)))

\* C25: right after an ssh_failed event with timestamp ts for an IP, the
\* failure sequence of that IP is ordered oldest-first, holds no entry
\* older than ts - window, and the last-failure entry of the IP is ts, in
\* whatever order the timestamps arrive.
C25_WindowPruned ==
    FailedEvt =>
        /\ OldestFirst(fails_by_ip[evt.ip])
        /\ \A i \in DOMAIN fails_by_ip[evt.ip] :
              fails_by_ip[evt.ip][i] >= evt.ts - window
        /\ recent_fail_ips[evt.ip] = evt.ts

\* C26: over cycles and restarts, every value written to the offsets file
\* for a source is the size the size query of the same cycle returned, and
\* the persisted offset of a source decreases only in a cycle whose size
\* query returned less than the offset that was stored when it ran.
C26_OffsetMonotone ==
    [][\A s \in Sources :
          offsets_file'[s] # offsets_file[s]
             => /\ s = Src
                /\ stat_res.rc = 0 /\ IsDigit(stat_res.out)
                /\ offsets_file'[s] = stat_res.out
                /\ offsets_file'[s] < offsets_file[s]
                      => (offset0 = offsets_file[s] /\ stat_res.out < offset0)]_vars

\* after a restart, a cycle has persisted an offset below the one stored
C26_Witness ==
    /\ pc = "log_ok" /\ crashes >= 1
    /\ stat_res.out < offset0 /\ offsets_file[Src] = stat_res.out

\* the alert of the last event in an engine that never evicts a last-failure
\* entry: failures are counted over all ssh_failed events seen in the
\* window, and a login is judged by ts - last_failure_timestamp <= window
ReferenceAlert ==
    IF FailedEvt
        THEN IF FailsInWindow(evt.ip, evt.ts) = fail_threshold
                THEN [alert |-> "ssh_bruteforce_suspected", ip |-> evt.ip,
                      count |-> fail_threshold]
                ELSE NoAlert
    ELSE IF AcceptedEvt
        THEN IF last_fail[evt.ip] # Absent /\ evt.ts - last_fail[evt.ip] <= window
                THEN [alert |-> "ssh_success_after_failures", ip |-> evt.ip,
                      last_fail_ts |-> last_fail[evt.ip]]
                ELSE NoAlert
    ELSE IF evt.event = "sudo" /\ alert_sudo THEN SudoAlert
    ELSE NoAlert

\* C27: for every stream with non-decreasing timestamps the alert emitted
\* for each event (kind, IP, count, last_fail_ts) is the one of the engine
\* that never evicts, so the two alert sequences are the same.
C27_EvictionTransparent ==
    (ordered /\ n_events > 0) => emitted = ReferenceAlert

\* a login from an IP whose last-failure entry was evicted: neither engine
\* alerts, the failure being outside the window
C27_Witness ==
    /\ AcceptedEvt /\ ordered /\ n_events >= 3
    /\ last_fail[evt.ip] # Absent /\ recent_fail_ips[evt.ip] = Absent
    /\ \E ip \in IPs : ip # evt.ip /\ recent_fail_ips[ip] # Absent
    /\ emitted = NoAlert

====
